---- MODULE Spec2Model ----
(***************************************************************************)
(* A model of the cunumeric operator facade (src/src/cunumeric/operators.cc)*)
(* and of the kernel tasks it relies on: shape broadcasting, output-array   *)
(* creation and submission, the Cholesky kernel and the tasks that set the  *)
(* numeric library's thread count.                                          *)
(***************************************************************************)
EXTENDS Integers, Sequences, FiniteSets, TLC

(* ------------------------------------------------------------------ *)
(* Bounds of the model                                                  *)
(* ------------------------------------------------------------------ *)
MaxRank == 2

MaxExtent == 3

MaxArity == 2

VARIABLES
  bsArrays,    \* broadcast_shapes: the shapes of the `arrays` argument
  bsRet,       \* broadcast_shapes: whether it was called, and what the call produced
  operands,    \* facade: the array handles the caller passes to the next call
  store,       \* facade: the arrays made by CuNumericRuntime::create_array, in order
  chain,       \* facade: the operations submitted to the runtime, in order
  ret,         \* facade: the last call, its arguments and how it ended
  alive,       \* facade: FALSE once the process has been terminated
  buffers,     \* runtime: the elements of the arrays that hold data, by handle
  potrf,       \* Cholesky task: its type, its in-place buffer and how it ended
  numThreads,  \* the numeric library's process-wide thread count
  ompMaxThreads,  \* what omp_get_max_threads() returns in this process
  LEGATE_USE_OPENMP,  \* whether the build defines LEGATE_USE_OPENMP
  tasks,       \* the kernel tasks in flight: their variant and their position
  scan         \* local scan: the partitions, their outputs and their aggregates

bsVars == <<bsArrays, bsRet>>

facadeVars == <<operands, store, chain, ret, alive>>

kernelVars == <<potrf, numThreads, ompMaxThreads, LEGATE_USE_OPENMP, tasks>>

vars == <<bsVars, facadeVars, buffers, kernelVars, scan>>

(* ------------------------------------------------------------------ *)
(* Shapes                                                               *)
(* ------------------------------------------------------------------ *)
Extents == 0..MaxExtent

Shapes == UNION {[1..r -> Extents] : r \in 0..MaxRank}

Max(a, b) == IF a >= b THEN a ELSE b

Min(a, b) == IF a <= b THEN a ELSE b

(* ------------------------------------------------------------------ *)
(* broadcast_shapes (operators.cc:28-51)                                *)
(* ------------------------------------------------------------------ *)
\* An exception object: its dynamic type, its message and the shapes the
\* message names.
Exception(type, what, names) == [type |-> type, what |-> what, names |-> names]

NoException == Exception("none", "", {})

\* for (auto& array : arrays) dim = std::max(dim, array.dim());
RECURSIVE MaxDim(_, _)
MaxDim(arrays, dim) ==
  IF arrays = <<>> THEN dim
  ELSE MaxDim(Tail(arrays), Max(dim, Len(Head(arrays))))

\* A slip of the inner loop: the two shapes are walked from the front, so
\* that extents are aligned on the leading dimension.
RECURSIVE BroadcastWalkLeading(_, _, _)
BroadcastWalkLeading(result, shape, j) ==
  IF j >= Len(shape) \/ j >= Len(result)
  THEN [thrown |-> NoException, result |-> result]
  ELSE LET in  == shape[j + 1]
           out == result[j + 1]
       IN  IF 1 = out
           THEN BroadcastWalkLeading([result EXCEPT ![j + 1] = in], shape, j + 1)
           ELSE IF in # 1 /\ out # in
                THEN [thrown |-> Exception("std::exception", "", {}), result |-> <<>>]
                ELSE BroadcastWalkLeading(result, shape, j + 1)

\* The inner loop over one input shape: in_it and out_it walk both shapes from
\* the back, j elements having been visited.
RECURSIVE BroadcastWalk(_, _, _)
BroadcastWalk(result, shape, j) ==
  IF j >= Len(shape) \/ j >= Len(result)
  THEN [thrown |-> NoException, result |-> result]
  ELSE LET in  == shape[Len(shape) - j]
           out == result[Len(result) - j]
       IN  IF 1 = out
           THEN BroadcastWalk([result EXCEPT ![Len(result) - j] = in], shape, j + 1)
           ELSE IF in # 1 /\ out # in
                THEN [thrown |-> Exception("std::exception", "", {}), result |-> <<>>]
                ELSE BroadcastWalk(result, shape, j + 1)

\* The outer loop over the inputs.
RECURSIVE BroadcastLoop(_, _)
BroadcastLoop(arrays, result) ==
  IF arrays = <<>> THEN [thrown |-> NoException, result |-> result]
  ELSE LET w == BroadcastWalk(result, Head(arrays), 0)
       IN  IF w.thrown # NoException THEN w
           ELSE BroadcastLoop(Tail(arrays), w.result)

broadcast_shapes(arrays) ==
  BroadcastLoop(arrays, [i \in 1..MaxDim(arrays, 0) |-> 1])

(* ------------------------------------------------------------------ *)
(* Element types (legate::Type::Code)                                   *)
(* ------------------------------------------------------------------ *)
\* The type codes in the order of the enumeration: the primitive codes come
\* first, FIXED_ARRAY and the codes after it are the composite ones.
TypeCodes ==
  << "BOOL", "INT8", "INT16", "INT32", "INT64",
     "UINT8", "UINT16", "UINT32", "UINT64",
     "FLOAT16", "FLOAT32", "FLOAT64", "COMPLEX64", "COMPLEX128",
     "FIXED_ARRAY", "STRUCT", "STRING" >>

CodeOf(tag) == CHOOSE i \in 1..Len(TypeCodes) : TypeCodes[i] = tag

Tags == {TypeCodes[i] : i \in 1..Len(TypeCodes)}

\* static_cast<int32_t>(code) >= static_cast<int32_t>(Type::Code::FIXED_ARRAY)
NotPrimitive(tag) == CodeOf(tag) >= CodeOf("FIXED_ARRAY")

PrimitiveTags == {t \in Tags : ~NotPrimitive(t)}

\* An absent type: a null std::unique_ptr<legate::Type>.
NullType == "nullptr"

NDArray(shape, type) == [shape |-> shape, type |-> type]

Arrays == [shape : Shapes, type : PrimitiveTags]

(* ------------------------------------------------------------------ *)
(* The facade's view of the runtime                                     *)
(* ------------------------------------------------------------------ *)
\* A handle names an array: one the runtime created during the call
\* (space "store") or one the caller passed in (space "operand").
Handle(space, idx) == [space |-> space, idx |-> idx]

NoHandle == Handle("none", 0)

Operand(i) == Handle("operand", i)

\* The array a handle names.
Deref(h) == IF h.space = "operand" THEN operands[h.idx] ELSE store[h.idx]

\* The effect of a call: the arrays it created, the operations it submitted,
\* the exception it threw, the handle it returned, how it ended, and the
\* type-specialized functors that ran in it.
Effect(created, submitted, thrown, out, ended, ran) ==
  [created |-> created, submitted |-> submitted, thrown |-> thrown,
   out |-> out, ended |-> ended, ran |-> ran]

Returns(created, submitted, out, ran) ==
  Effect(created, submitted, NoException, out, "returned", ran)

Throws(e) == Effect(<<>>, <<>>, e, NoHandle, "threw", <<>>)

\* LEGATE_ABORT: the process is terminated.
Aborts == Effect(<<>>, <<>>, NoException, NoHandle, "aborted", <<>>)

\* A read through a null pointer that the hardware traps.
Crashes == Effect(<<>>, <<>>, NoException, NoHandle, "crashed", <<>>)

\* The handle runtime->create_array returns for the next array it makes.
NewHandle == Handle("store", Len(store) + 1)

\* A submitted operation: out.<op>(args...) on the handle `out`.
Submit(op, code, out, ins) == [op |-> op, code |-> code, out |-> out, ins |-> ins]

\* Before any call.
NoCall == [call |-> "none", args |-> <<>>, thrown |-> NoException,
           out |-> NoHandle, ended |-> "none", ran |-> <<>>]

FacadeIdle ==
  /\ operands = <<>>
  /\ store = <<>>
  /\ chain = <<>>
  /\ ret = NoCall
  /\ alive = TRUE

BroadcastIdle ==
  /\ bsArrays = <<>>
  /\ bsRet = [called |-> FALSE, thrown |-> NoException, result |-> <<>>]

ScanIdle ==
  scan = [in |-> <<>>, out |-> <<>>, sum_vals |-> <<>>, ran |-> {},
          op_code |-> "none", nan_to_identity |-> FALSE]

NoPotrf ==
  [code |-> "none", input |-> <<>>, array |-> <<>>, task |-> 0, pc |-> "none",
   info |-> 0, thrown |-> NoException]

KernelsIdle ==
  /\ potrf = NoPotrf
  /\ numThreads = 1
  /\ ompMaxThreads = 1
  /\ LEGATE_USE_OPENMP = FALSE
  /\ tasks = <<>>

(* ------------------------------------------------------------------ *)
(* Type dispatch                                                        *)
(* ------------------------------------------------------------------ *)
\* legate::type_dispatch(code, f, args...): runs f's specialization for the
\* code; a code outside the primitive set is refused with a TypeError.
type_dispatch(code, f) ==
  IF code \in PrimitiveTags
  THEN [thrown |-> NoException, ran |-> <<[fn |-> f, code |-> code]>>]
  ELSE [thrown |-> Exception("TypeError", "unsupported type code", {}), ran |-> <<>>]

(* ------------------------------------------------------------------ *)
(* The facade (operators.cc)                                            *)
(* ------------------------------------------------------------------ *)
InvalidArgument(what) == Exception("std::invalid_argument", what, {})

\* array (operators.cc:55-58)
array(shape, type) == Returns(<<NDArray(shape, type)>>, <<>>, NewHandle, <<>>)

\* unary_op (operators.cc:60-66)
unary_op(op_code, input) ==
  Returns(<<NDArray(Deref(input).shape, Deref(input).type)>>,
          <<Submit("unary_op", op_code, NewHandle, <<input>>)>>,
          NewHandle, <<>>)

\* abs (operators.cc:87)
abs(input) == unary_op("ABSOLUTE", input)

\* negative (operators.cc:99)
negative(input) == unary_op("NEGATIVE", input)

\* random (operators.cc:101-107)
random(shape) ==
  Returns(<<NDArray(shape, "FLOAT64")>>,
          <<Submit("random", "UNIFORM", NewHandle, <<>>)>>, NewHandle, <<>>)

\* unary_reduction (operators.cc:68-74)
unary_reduction(op_code, input) ==
  Returns(<<NDArray(<<1>>, Deref(input).type)>>,
          <<Submit("unary_reduction", op_code, NewHandle, <<input>>)>>,
          NewHandle, <<>>)

\* sum (operators.cc:207)
sum(input) == unary_reduction("SUM", input)

\* binary_op (operators.cc:76-85); out = NoHandle is an empty std::optional.
binary_op(op_code, rhs1, rhs2, out) ==
  IF out = NoHandle
  THEN LET b == broadcast_shapes(<<Deref(rhs1).shape, Deref(rhs2).shape>>)
       IN  IF b.thrown # NoException THEN Throws(b.thrown)
           ELSE Returns(<<NDArray(b.result, Deref(rhs1).type)>>,
                        <<Submit("binary_op", op_code, NewHandle, <<rhs1, rhs2>>)>>,
                        NewHandle, <<>>)
  ELSE Returns(<<>>, <<Submit("binary_op", op_code, out, <<rhs1, rhs2>>)>>,
               out, <<>>)

\* add (operators.cc:89-92)
add(rhs1, rhs2, out) == binary_op("ADD", rhs1, rhs2, out)

\* multiply (operators.cc:94-97)
multiply(rhs1, rhs2, out) == binary_op("MULTIPLY", rhs1, rhs2, out)

\* full (operators.cc:131-137); value is a Scalar: its type and its number.
full(shape, value) ==
  Returns(<<NDArray(shape, value.type)>>,
          <<Submit("fill", value, NewHandle, <<>>)>>, NewHandle, <<>>)

\* zeros (operators.cc:122-129)
zeros(shape, type0) ==
  LET type == IF type0 = NullType THEN "FLOAT64" ELSE type0
  IN  IF NotPrimitive(type)
      THEN Throws(InvalidArgument("Type must be a primitive type"))
      ELSE LET d == type_dispatch(type, "generate_zero_fn")
           IN  IF d.thrown # NoException THEN Throws(d.thrown)
               ELSE [full(shape, [type |-> d.ran[1].code, value |-> 0])
                       EXCEPT !.ran = d.ran]

\* The part of eye after the type check (operators.cc:144-147); m is a
\* std::optional<size_t>: <<>> when empty, <<v>> when it holds v.
EyeCreate(n, m, k, type) ==
  Returns(<<NDArray(<<n, IF m = <<>> THEN n ELSE m[1]>>, type)>>,
          <<Submit("eye", k, NewHandle, <<>>)>>, NewHandle, <<>>)

\* eye (operators.cc:139-148): the set of its possible effects. The function
\* reads type->code without a null check; with a null type the read is
\* undefined: the process traps, or the read yields some code and the
\* function takes either of its paths.
eye(n, m, k, type) ==
  IF type = NullType
  THEN {Crashes,
        Throws(InvalidArgument("Type must be a primitive type")),
        EyeCreate(n, m, k, type)}
  ELSE IF NotPrimitive(type)
       THEN {Throws(InvalidArgument("Type must be a primitive type"))}
       ELSE {EyeCreate(n, m, k, type)}

\* A slip of trilu: the rank-1 input is not promoted to a square matrix.
trilu_no_promotion(rhs, k, lower) ==
  LET shape == Deref(rhs).shape
  IN  IF Len(shape) = 0
      THEN Throws(InvalidArgument("Dim of input array must be > 0"))
      ELSE Returns(<<NDArray(shape, Deref(rhs).type)>>,
                   <<Submit("trilu", <<k, lower>>, NewHandle, <<rhs>>)>>,
                   NewHandle, <<>>)

\* trilu (operators.cc:150-164)
trilu(rhs, k, lower) ==
  LET dim       == Len(Deref(rhs).shape)
      shape     == Deref(rhs).shape
      out_shape == IF dim = 1 THEN Append(shape, shape[1]) ELSE shape
  IN  IF dim = 0
      THEN Throws(InvalidArgument("Dim of input array must be > 0"))
      ELSE Returns(<<NDArray(out_shape, Deref(rhs).type)>>,
                   <<Submit("trilu", <<k, lower>>, NewHandle, <<rhs>>)>>,
                   NewHandle, <<>>)

\* tril (operators.cc:167-170)
tril(rhs, k) == trilu(rhs, k, TRUE)

\* triu (operators.cc:172-175)
triu(rhs, k) == trilu(rhs, k, FALSE)

\* dot (operators.cc:177-205)
dot(rhs1, rhs2) ==
  LET rhs1_shape == Deref(rhs1).shape
      rhs2_shape == Deref(rhs2).shape
  IN  IF Len(rhs1_shape) # 2 \/ Len(rhs2_shape) # 2 THEN Aborts
      ELSE IF rhs1_shape[2] # rhs2_shape[1] THEN Aborts
      ELSE Returns(<<NDArray(<<rhs1_shape[1], rhs2_shape[2]>>, Deref(rhs1).type)>>,
                   <<Submit("dot", "", NewHandle, <<rhs1, rhs2>>)>>,
                   NewHandle, <<>>)

\* What a member function of NDArray that the facade forwards to returns.
MethodResult == Handle("method", 1)

\* unique (operators.cc:209): the call is forwarded to input.unique().
unique(input) ==
  Returns(<<>>, <<Submit("unique", "", input, <<>>)>>, MethodResult, <<>>)

\* nonzero (operators.cc:211): the call is forwarded to input.nonzero().
nonzero(input) ==
  Returns(<<>>, <<Submit("nonzero", "", input, <<>>)>>, MethodResult, <<>>)

\* write_template<KIND> (write_template.inl:41-47) with WriteImpl<KIND>
\* (write_template.inl:29-39): the task dispatches on the output's type code
\* and runs WriteImplBody<KIND, VAL> for it.
write_template(KIND, in, out) ==
  LET d == type_dispatch(out.type, <<"WriteImplBody", KIND>>)
  IN  IF d.thrown # NoException THEN Throws(d.thrown)
      ELSE Returns(<<>>, <<>>, NoHandle, d.ran)

(* ------------------------------------------------------------------ *)
(* Facade calls as steps of the calling program                         *)
(* ------------------------------------------------------------------ *)
\* The caller makes the call `call` with the arguments `args`; `eff` is what
\* the callee did.
Call(call, args, eff) ==
  /\ alive
  /\ ret.call = "none"
  /\ store' = store \o eff.created
  /\ chain' = chain \o eff.submitted
  /\ ret' = [call |-> call, args |-> args, thrown |-> eff.thrown,
             out |-> eff.out, ended |-> eff.ended, ran |-> eff.ran]
  /\ alive' = (eff.ended \in {"returned", "threw"})
  /\ UNCHANGED <<scan, LEGATE_USE_OPENMP, operands, bsVars, buffers, kernelVars>>

\* The values of the int32_t diagonal offset k that are tried.
Diagonals == {-1, 0, 1}

\* An optional output: absent, or one of the operand handles (as in
\* add(a, b, a)).
OutChoices == {NoHandle} \cup {Operand(i) : i \in 1..Len(operands)}

BinaryOpCodes == {"ADD", "MULTIPLY"}

UnaryOpCodes == {"ABSOLUTE", "NEGATIVE"}

UnaryRedCodes == {"SUM"}

\* The legate::Scalar values that are tried: a primitive type and a number.
Scalars == [type : PrimitiveTags, value : {0, 1}]

CallArray ==
  /\ Len(operands) = 0
  /\ \E shape \in Shapes, type \in Tags :
        Call("array", [shape |-> shape, type |-> type], array(shape, type))

CallUnaryOp ==
  /\ Len(operands) = 1
  /\ \E op_code \in UnaryOpCodes :
        Call("unary_op", [op_code |-> op_code], unary_op(op_code, Operand(1)))

CallAbs ==
  /\ Len(operands) = 1
  /\ Call("abs", [op_code |-> "ABSOLUTE"], abs(Operand(1)))

CallNegative ==
  /\ Len(operands) = 1
  /\ Call("negative", [op_code |-> "NEGATIVE"], negative(Operand(1)))

CallRandom ==
  /\ Len(operands) = 0
  /\ \E shape \in Shapes : Call("random", [shape |-> shape], random(shape))

CallUnaryReduction ==
  /\ Len(operands) = 1
  /\ \E op_code \in UnaryRedCodes :
        Call("unary_reduction", [op_code |-> op_code],
             unary_reduction(op_code, Operand(1)))

CallFull ==
  /\ Len(operands) = 0
  /\ \E shape \in Shapes, value \in Scalars :
        Call("full", [shape |-> shape, value |-> value], full(shape, value))

CallUnique ==
  /\ Len(operands) = 1
  /\ Call("unique", <<>>, unique(Operand(1)))

CallNonzero ==
  /\ Len(operands) = 1
  /\ Call("nonzero", <<>>, nonzero(Operand(1)))

CallBinaryOp ==
  /\ Len(operands) = 2
  /\ \E op_code \in BinaryOpCodes, out \in OutChoices :
        Call("binary_op", [op_code |-> op_code, out |-> out],
             binary_op(op_code, Operand(1), Operand(2), out))

CallAdd ==
  /\ Len(operands) = 2
  /\ \E out \in OutChoices :
        Call("add", [op_code |-> "ADD", out |-> out],
             add(Operand(1), Operand(2), out))

CallMultiply ==
  /\ Len(operands) = 2
  /\ \E out \in OutChoices :
        Call("multiply", [op_code |-> "MULTIPLY", out |-> out],
             multiply(Operand(1), Operand(2), out))

CallDot ==
  /\ Len(operands) = 2
  /\ Call("dot", <<>>, dot(Operand(1), Operand(2)))

CallTrilu ==
  /\ Len(operands) = 1
  /\ \E k \in Diagonals, lower \in BOOLEAN :
        Call("trilu", [k |-> k, lower |-> lower], trilu(Operand(1), k, lower))

CallTril ==
  /\ Len(operands) = 1
  /\ \E k \in Diagonals :
        Call("tril", [k |-> k, lower |-> TRUE], tril(Operand(1), k))

CallTriu ==
  /\ Len(operands) = 1
  /\ \E k \in Diagonals :
        Call("triu", [k |-> k, lower |-> FALSE], triu(Operand(1), k))

CallSum ==
  /\ Len(operands) = 1
  /\ Call("sum", <<>>, sum(Operand(1)))

CallZeros ==
  /\ Len(operands) = 0
  /\ \E shape \in Shapes, type \in Tags \cup {NullType} :
        Call("zeros", [shape |-> shape, type |-> type], zeros(shape, type))

CallEye ==
  /\ Len(operands) = 0
  /\ \E n \in Extents, m \in {<<>>} \cup {<<e>> : e \in Extents}, k \in Diagonals,
        type \in Tags \cup {NullType} :
        \E eff \in eye(n, m, k, type) :
           Call("eye", [n |-> n, m |-> m, k |-> k, type |-> type], eff)

VariantKinds == {"CPU", "OMP", "GPU"}

\* The runtime runs a write task on a context with one input and one output.
RunWriteTemplate ==
  /\ Len(operands) = 0
  /\ \E KIND \in VariantKinds, inT \in Tags, outT \in Tags :
        Call("write_template", [KIND |-> KIND, in |-> inT, type |-> outT],
             write_template(KIND, NDArray(<<1>>, inT), NDArray(<<1>>, outT)))

InitFacade ==
  /\ \E n \in 0..2 : operands \in [1..n -> Arrays]
  /\ store = <<>>
  /\ chain = <<>>
  /\ ret = NoCall
  /\ alive = TRUE
  /\ buffers = <<>>
  /\ BroadcastIdle
  /\ ScanIdle
  /\ KernelsIdle

NextFacade ==
  \/ CallArray
  \/ CallUnaryOp
  \/ CallUnaryReduction
  \/ CallAbs
  \/ CallNegative
  \/ CallRandom
  \/ CallFull
  \/ CallUnique
  \/ CallNonzero
  \/ CallBinaryOp
  \/ CallAdd
  \/ CallMultiply
  \/ CallDot
  \/ CallTrilu
  \/ CallTril
  \/ CallTriu
  \/ CallSum
  \/ CallZeros
  \/ CallEye
  \/ RunWriteTemplate

SpecFacade == InitFacade /\ [][NextFacade]_vars

\* The triangular extractions on their own.
InitTrilu ==
  /\ InitFacade
  /\ Len(operands) = 1

NextTrilu == CallTrilu \/ CallTril \/ CallTriu

SpecTrilu == InitTrilu /\ [][NextTrilu]_vars

(* ------------------------------------------------------------------ *)
(* The sum reduction, from the call to the kernel's result              *)
(* ------------------------------------------------------------------ *)
MaxLen == 130

IntegerTags ==
  {"INT8", "INT16", "INT32", "INT64", "UINT8", "UINT16", "UINT32", "UINT64"}

BitsOf(tag) ==
  CASE tag \in {"INT8", "UINT8"} -> 8
    [] tag \in {"INT16", "UINT16"} -> 16
    [] tag \in {"INT32", "UINT32"} -> 32
    [] tag \in {"INT64", "UINT64"} -> 64

\* The value v as an object of the integer type `tag` holds it: reduced
\* modulo 2^bits into the type's range. The accumulated values of this model
\* stay far below 2^31, so that the 32 and 64 bit types never wrap.
Wrap(v, tag) ==
  IF BitsOf(tag) >= 32 THEN v
  ELSE IF tag \in {"UINT8", "UINT16"}
  THEN v % (2 ^ BitsOf(tag))
  ELSE ((v + 2 ^ (BitsOf(tag) - 1)) % (2 ^ BitsOf(tag))) - 2 ^ (BitsOf(tag) - 1)

\* The SUM reduction of elements[lo..hi]: the identity 0 for an empty range;
\* a longer range is split in two and the partial results are combined
\* pairwise, every value being held in the element type `tag`.
RECURSIVE SumRange(_, _, _, _)
SumRange(elements, lo, hi, tag) ==
  IF lo > hi THEN 0
  ELSE IF lo = hi THEN Wrap(0 + elements[lo], tag)
  ELSE LET mid == (lo + hi) \div 2
       IN  Wrap(SumRange(elements, lo, mid, tag)
                + SumRange(elements, mid + 1, hi, tag), tag)

\* The SUM reduction kernel over a whole buffer.
SumKernel(elements, tag) == SumRange(elements, 1, Len(elements), tag)

\* The runtime runs the reduction that sum submitted and fills its output.
RunReduction ==
  /\ alive
  /\ Len(chain) = 1
  /\ chain[1].op = "unary_reduction"
  /\ chain[1].code = "SUM"
  /\ chain[1].out \notin DOMAIN buffers
  /\ buffers' = buffers @@
       (chain[1].out :>
          <<SumKernel(buffers[chain[1].ins[1]], Deref(chain[1].out).type)>>)
  /\ UNCHANGED <<scan, LEGATE_USE_OPENMP, facadeVars, bsVars, kernelVars>>

\* The caller holds one vector of ones of an integer type.
InitSum ==
  /\ \E n \in 0..MaxLen, type \in IntegerTags :
        /\ operands = <<NDArray(<<n>>, type)>>
        /\ buffers = (Operand(1) :> [i \in 1..n |-> 1])
  /\ store = <<>>
  /\ chain = <<>>
  /\ ret = NoCall
  /\ alive = TRUE
  /\ BroadcastIdle
  /\ ScanIdle
  /\ KernelsIdle

NextSum == CallSum \/ RunReduction

SpecSum == InitSum /\ [][NextSum]_vars

(* ------------------------------------------------------------------ *)
(* The Cholesky kernel (matrix/potrf.cc)                                *)
(* ------------------------------------------------------------------ *)
MaxEntry == 4

PotrfCodes == {"FLOAT32", "FLOAT64", "COMPLEX64", "COMPLEX128"}

IsSquare(x) == \E r \in 0..MaxEntry : r * r = x

Sqrt(x) == CHOOSE r \in 0..MaxEntry : r * r = x

\* The 2 x 2 symmetric matrices, as rows, over the entries of the model.
Matrices ==
  {<<<<a11, a21>>, <<a21, a22>>>> :
     a11 \in -1..MaxEntry, a21 \in -MaxEntry..MaxEntry, a22 \in -MaxEntry..MaxEntry}

\* The matrices on which every square root and quotient of the factorization
\* is an integer, so that the model computes what the routine computes.
ExactlyFactored(a) ==
  \/ a[1][1] <= 0
  \/ /\ IsSquare(a[1][1])
     /\ a[2][1] % Sqrt(a[1][1]) = 0
     /\ LET l21 == a[2][1] \div Sqrt(a[1][1])
        IN  \/ a[2][2] - l21 * l21 <= 0
            \/ IsSquare(a[2][2] - l21 * l21)

\* LAPACK_?potrf with uplo = 'L' on a 2 x 2 buffer, in place: column by
\* column; at the first pivot that is not positive it stores the pivot and
\* returns its index in info, leaving the columns before it factored.
LAPACK_potrf(a) ==
  IF a[1][1] <= 0 THEN [info |-> 1, array |-> a]
  ELSE LET l11 == Sqrt(a[1][1])
           l21 == a[2][1] \div l11
           ajj == a[2][2] - l21 * l21
       IN  IF ajj <= 0
           THEN [info |-> 2, array |-> <<<<l11, a[1][2]>>, <<l21, ajj>>>>]
           ELSE [info |-> 0, array |-> <<<<l11, a[1][2]>>, <<l21, Sqrt(ajj)>>>>]

TaskException(what) == Exception("legate::TaskException", what, {})

\* PotrfImplBody<VariantKind::CPU, CODE>::operator() (potrf.cc:27-77): the
\* four specializations differ in the routine's precision only.
PotrfImplBody(CODE, arr) ==
  LET r == LAPACK_potrf(arr)
  IN  [array |-> r.array, info |-> r.info,
       thrown |-> IF r.info # 0
                  THEN TaskException("Matrix is not positive definite")
                  ELSE NoException]

(* ------------------------------------------------------------------ *)
(* The kernel tasks and the library's thread count                      *)
(* (matrix/potrf.cc:79-85, matrix/matvecmul_omp.cc:126-133)             *)
(* ------------------------------------------------------------------ *)
MaxOmpThreads == 2

NumTasks == 3

TaskKinds == {"PotrfTask::cpu_variant", "MatVecMulTask::omp_variant"}

\* The variants the build registers: the OMP variants exist only in a build
\* with LEGATE_USE_OPENMP.
BuiltKinds(openmp) ==
  IF openmp THEN TaskKinds ELSE {"PotrfTask::cpu_variant"}

\* The start of PotrfTask::cpu_variant (potrf.cc:81-83):
\* openblas_set_num_threads(1), compiled only with LEGATE_USE_OPENMP.
PotrfSetNumThreads(t) ==
  /\ tasks[t].kind = "PotrfTask::cpu_variant"
  /\ tasks[t].pc = "start"
  /\ numThreads' = IF LEGATE_USE_OPENMP THEN 1 ELSE numThreads
  /\ tasks' = [tasks EXCEPT ![t].pc = "set"]
  /\ UNCHANGED <<scan, LEGATE_USE_OPENMP, bsVars, facadeVars, buffers, potrf, ompMaxThreads>>

\* openblas_set_num_threads(omp_get_max_threads()) in
\* MatVecMulTask::omp_variant (matvecmul_omp.cc:131).
MatVecMulSetNumThreads(t) ==
  /\ tasks[t].kind = "MatVecMulTask::omp_variant"
  /\ tasks[t].pc = "start"
  /\ numThreads' = ompMaxThreads
  /\ tasks' = [tasks EXCEPT ![t].pc = "set"]
  /\ UNCHANGED <<scan, LEGATE_USE_OPENMP, bsVars, facadeVars, buffers, potrf, ompMaxThreads>>

\* potrf_template / matvecmul_template: the task enters the library routine
\* (potrf.cc:84, matvecmul_omp.cc:132).
EnterLibrary(t) ==
  /\ tasks[t].pc = "set"
  /\ tasks' = [tasks EXCEPT ![t].pc = "library"]
  /\ UNCHANGED <<scan, LEGATE_USE_OPENMP, bsVars, facadeVars, buffers, potrf, numThreads, ompMaxThreads>>

\* The library routine returns and the task ends.
LeaveLibrary(t) ==
  /\ tasks[t].pc = "library"
  /\ potrf.task # t
  /\ tasks' = [tasks EXCEPT ![t].pc = "done"]
  /\ UNCHANGED <<scan, LEGATE_USE_OPENMP, bsVars, facadeVars, buffers, potrf, numThreads, ompMaxThreads>>

\* potrf_template<VariantKind::CPU> (potrf.cc:84) of the task that holds
\* the matrix: the library routine runs on the buffer in place and the
\* task ends, with the exception of PotrfImplBody when there is one.
PotrfTemplate(t) ==
  /\ tasks[t].kind = "PotrfTask::cpu_variant"
  /\ tasks[t].pc = "library"
  /\ potrf.task = t
  /\ potrf.pc = "ready"
  /\ LET r == PotrfImplBody(potrf.code, potrf.array)
     IN  potrf' = [potrf EXCEPT !.array = r.array, !.info = r.info,
                                !.thrown = r.thrown, !.pc = "done"]
  /\ tasks' = [tasks EXCEPT ![t].pc = "done"]
  /\ UNCHANGED <<scan, LEGATE_USE_OPENMP, bsVars, facadeVars, buffers, numThreads, ompMaxThreads>>

\* One Cholesky task on a matrix, alone or beside one other kernel task.
InitPotrf ==
  /\ \E code \in PotrfCodes, a \in {m \in Matrices : ExactlyFactored(m)} :
        potrf = [code |-> code, input |-> a, array |-> a, task |-> 1,
                 pc |-> "ready", info |-> 0, thrown |-> NoException]
  /\ LEGATE_USE_OPENMP \in BOOLEAN
  /\ numThreads \in 1..MaxOmpThreads
  /\ ompMaxThreads \in 1..MaxOmpThreads
  /\ \E others \in {<<>>} \cup
                    {<<[kind |-> k, pc |-> "start"]>> : k \in BuiltKinds(LEGATE_USE_OPENMP)} :
        tasks = <<[kind |-> "PotrfTask::cpu_variant", pc |-> "start"]>> \o others
  /\ FacadeIdle
  /\ buffers = <<>>
  /\ BroadcastIdle
  /\ ScanIdle

NextPotrf ==
  \E t \in DOMAIN tasks :
     \/ PotrfSetNumThreads(t)
     \/ MatVecMulSetNumThreads(t)
     \/ EnterLibrary(t)
     \/ PotrfTemplate(t)
     \/ LeaveLibrary(t)

SpecPotrf == InitPotrf /\ [][NextPotrf]_vars

InitThreads ==
  /\ LEGATE_USE_OPENMP \in BOOLEAN
  /\ tasks \in [1..NumTasks -> [kind : BuiltKinds(LEGATE_USE_OPENMP), pc : {"start"}]]
  /\ ompMaxThreads \in 1..MaxOmpThreads
  /\ numThreads \in 1..MaxOmpThreads
  /\ potrf = NoPotrf
  /\ FacadeIdle
  /\ buffers = <<>>
  /\ BroadcastIdle
  /\ ScanIdle

NextThreads ==
  \E t \in 1..NumTasks :
     \/ PotrfSetNumThreads(t)
     \/ MatVecMulSetNumThreads(t)
     \/ EnterLibrary(t)
     \/ LeaveLibrary(t)

SpecThreads == InitThreads /\ [][NextThreads]_vars

(* ------------------------------------------------------------------ *)
(* The local scan task (scan/scan_local.h)                              *)
(* ------------------------------------------------------------------ *)
MaxParts == 2

MaxPartLen == 2

MaxScanValue == 2

ScanValues == 0..MaxScanValue

\* One partition of the input: the elements one task sees.
Partitions == UNION {[1..n -> ScanValues] : n \in 0..MaxPartLen}

\* ScanLocalArgs (scan_local.h:24-30): out, in and sum_vals hold one entry
\* per partition; ran is the set of partitions whose task has run.
ScanLocalArgs(in, op_code, nan_to_identity) ==
  [in |-> in,
   out |-> [p \in 1..Len(in) |-> <<>>],
   sum_vals |-> [p \in 1..Len(in) |-> 0],
   ran |-> {},
   op_code |-> op_code,
   nan_to_identity |-> nan_to_identity]

\* The identity element of the scan operation.
ScanIdentity(op_code) == IF op_code = "SUM" THEN 0 ELSE 1

ScanApply(op_code, a, b) == IF op_code = "SUM" THEN a + b ELSE a * b

\* A slip of the local scan: each output element is the accumulation of the
\* elements before it, the element itself left out.
RECURSIVE LocalScanExclusive(_, _, _)
LocalScanExclusive(op_code, elements, acc) ==
  IF elements = <<>> THEN <<>>
  ELSE <<acc>> \o LocalScanExclusive(op_code, Tail(elements),
                                     ScanApply(op_code, acc, Head(elements)))

\* The in-partition scan: a running accumulation that starts from acc, each
\* output element taking the accumulation up to and including its input.
RECURSIVE LocalScan(_, _, _)
LocalScan(op_code, elements, acc) ==
  IF elements = <<>> THEN <<>>
  ELSE LET next == ScanApply(op_code, acc, Head(elements))
       IN  <<next>> \o LocalScan(op_code, Tail(elements), next)

\* The aggregate of a partition: the last element of its local scan, the
\* identity for a partition without elements.
Aggregate(op_code, scanned) ==
  IF scanned = <<>> THEN ScanIdentity(op_code) ELSE scanned[Len(scanned)]

\* ScanLocalTask::cpu_variant (scan_local.h:37) on partition p: it scans the
\* partition from the identity and stores the partition's aggregate at p.
ScanLocalCpuVariant(p) ==
  /\ p \in 1..Len(scan.in)
  /\ p \notin scan.ran
  /\ LET scanned == LocalScan(scan.op_code, scan.in[p], ScanIdentity(scan.op_code))
     IN  scan' = [scan EXCEPT !.out[p] = scanned,
                              !.sum_vals[p] = Aggregate(scan.op_code, scanned),
                              !.ran = @ \cup {p}]
  /\ UNCHANGED <<bsVars, facadeVars, buffers, kernelVars>>

InitScan ==
  /\ \E n \in 1..MaxParts :
        \E in \in [1..n -> Partitions] :
           scan = ScanLocalArgs(in, "SUM", FALSE)
  /\ FacadeIdle
  /\ buffers = <<>>
  /\ BroadcastIdle
  /\ KernelsIdle

\* The runtime runs one task per partition, in any order.
NextScan == \E p \in 1..MaxParts : ScanLocalCpuVariant(p)

SpecScan == InitScan /\ [][NextScan]_vars

(* ------------------------------------------------------------------ *)
(* Specification of the shape resolver on its own                       *)
(* ------------------------------------------------------------------ *)
InitBroadcast ==
  /\ \E n \in 1..MaxArity : bsArrays \in [1..n -> Shapes]
  /\ bsRet = [called |-> FALSE, thrown |-> NoException, result |-> <<>>]
  /\ FacadeIdle
  /\ buffers = <<>>
  /\ KernelsIdle
  /\ ScanIdle

CallBroadcastShapes ==
  /\ ~bsRet.called
  /\ LET r == broadcast_shapes(bsArrays)
     IN  bsRet' = [called |-> TRUE, thrown |-> r.thrown, result |-> r.result]
  /\ UNCHANGED <<scan, LEGATE_USE_OPENMP, bsArrays, facadeVars, buffers, kernelVars>>

NextBroadcast == CallBroadcastShapes

SpecBroadcast == InitBroadcast /\ [][NextBroadcast]_vars

(* ------------------------------------------------------------------ *)
(* Properties of the shape resolver                                     *)
(* ------------------------------------------------------------------ *)
\* The extents other than 1 that the inputs hold at trailing position p
\* (p = 1 is the last dimension).
NonUnitExtentsAt(arrays, p) ==
  {arrays[i][Len(arrays[i]) - p + 1] :
     i \in {k \in 1..Len(arrays) : Len(arrays[k]) >= p}} \ {1}

MaxRankOf(arrays) ==
  CHOOSE r \in 0..(MaxRank + 1) :
    /\ \A i \in 1..Len(arrays) : Len(arrays[i]) <= r
    /\ \/ r = 0
       \/ \E i \in 1..Len(arrays) : Len(arrays[i]) = r

\* No trailing-aligned position holds two different non-1 extents.
Compatible(arrays) ==
  \A p \in 1..MaxRankOf(arrays) : Cardinality(NonUnitExtentsAt(arrays, p)) <= 1

\* Two inputs that hold different non-1 extents at one aligned position.
ConflictingPairs(arrays) ==
  {pr \in (1..Len(arrays)) \X (1..Len(arrays)) :
     \E p \in 1..Min(Len(arrays[pr[1]]), Len(arrays[pr[2]])) :
        LET a == arrays[pr[1]][Len(arrays[pr[1]]) - p + 1]
            b == arrays[pr[2]][Len(arrays[pr[2]]) - p + 1]
        IN  a # 1 /\ b # 1 /\ a # b}

Orders(n) == {f \in [1..n -> 1..n] : \A i, j \in 1..n : f[i] = f[j] => i = j}

Permuted(arrays, f) == [i \in 1..Len(arrays) |-> arrays[f[i]]]

\* C1: for a non-empty list of compatible shapes broadcast_shapes returns a
\* shape of the maximum input rank whose every trailing-aligned dimension is
\* the common non-1 extent of the inputs at that position (1 when there is
\* none); the result is the same for every order of the inputs, and with a
\* rank-0 input added at either end.
BroadcastResolves ==
  (bsRet.called /\ Compatible(bsArrays)) =>
     /\ bsRet.thrown = NoException
     /\ Len(bsRet.result) = MaxRankOf(bsArrays)
     /\ \A p \in 1..MaxRankOf(bsArrays) :
          LET e == NonUnitExtentsAt(bsArrays, p)
              d == bsRet.result[Len(bsRet.result) - p + 1]
          IN  IF e = {} THEN d = 1 ELSE d \in e
     /\ \A f \in Orders(Len(bsArrays)) :
          broadcast_shapes(Permuted(bsArrays, f)).result = bsRet.result
     /\ broadcast_shapes(Append(bsArrays, <<>>)).result = bsRet.result
     /\ broadcast_shapes(<<(<<>>)>> \o bsArrays).result = bsRet.result

\* Two compatible inputs of different rank, one of which is stretched.
BroadcastResolvesWitness ==
  /\ bsRet.called
  /\ Compatible(bsArrays)
  /\ Len(bsArrays) = 2
  /\ Len(bsArrays[1]) # Len(bsArrays[2])
  /\ bsRet.thrown = NoException
  /\ bsRet.result # bsArrays[1]
  /\ bsRet.result # bsArrays[2]
  /\ \E i \in 1..Len(bsRet.result) : bsRet.result[i] > 1

\* C2: broadcast resolution fails exactly when two inputs hold different
\* non-1 extents at one aligned position, and the failure is an error that
\* names both conflicting shapes.
BroadcastFailsWithShapeError ==
  bsRet.called =>
     /\ (bsRet.thrown # NoException) <=> ~Compatible(bsArrays)
     /\ (bsRet.thrown # NoException) =>
          \E pr \in ConflictingPairs(bsArrays) :
             {bsArrays[pr[1]], bsArrays[pr[2]]} \subseteq bsRet.thrown.names

\* C2, the half the code keeps: it throws exactly on the incompatible lists.
BroadcastFailsExactlyOnConflict ==
  bsRet.called => ((bsRet.thrown # NoException) <=> ~Compatible(bsArrays))

(* ------------------------------------------------------------------ *)
(* Properties of the facade                                             *)
(* ------------------------------------------------------------------ *)
BinaryCalls == {"binary_op", "add", "multiply"}

TriluCalls == {"trilu", "tril", "triu"}

\* The arguments of the last call do not pass the validation its entry point
\* is specified to make.
ArgsFailValidation ==
  \/ /\ ret.call \in BinaryCalls
     /\ ~Compatible(<<operands[1].shape, operands[2].shape>>)
  \/ /\ ret.call \in TriluCalls
     /\ Len(operands[1].shape) = 0
  \/ /\ ret.call = "dot"
     /\ \/ Len(operands[1].shape) # 2
        \/ Len(operands[2].shape) # 2
        \/ operands[1].shape[2] # operands[2].shape[1]
  \/ /\ ret.call \in {"zeros", "eye"}
     /\ ret.args.type \in Tags \ PrimitiveTags

\* C3: a facade call whose arguments fail validation creates no output
\* array and submits no operation, so that an explicitly supplied output
\* handle is left unchanged.
FailedCallLeavesNoTrace ==
  ArgsFailValidation => (store = <<>> /\ chain = <<>>)

\* Element types by family and width, as needed to compare their ranges.
IsSigned(t) == t \in {"INT8", "INT16", "INT32", "INT64"}

IsUnsigned(t) == t \in {"UINT8", "UINT16", "UINT32", "UINT64"}

IsFloat(t) == t \in {"FLOAT16", "FLOAT32", "FLOAT64"}

IsComplex(t) == t \in {"COMPLEX64", "COMPLEX128"}

\* The width in bits of a value of the type (of one part, for a complex type).
PartBits(t) ==
  CASE t = "BOOL" -> 1
    [] t \in {"INT8", "UINT8"} -> 8
    [] t \in {"INT16", "UINT16", "FLOAT16"} -> 16
    [] t \in {"INT32", "UINT32", "FLOAT32", "COMPLEX64"} -> 32
    [] t \in {"INT64", "UINT64", "FLOAT64", "COMPLEX128"} -> 64

\* The width of the significand of a floating or complex type.
Significand(t) ==
  CASE t = "FLOAT16" -> 11
    [] t \in {"FLOAT32", "COMPLEX64"} -> 24
    [] t \in {"FLOAT64", "COMPLEX128"} -> 53

\* Every value of type t is a value of type o.
CanHold(o, t) ==
  \/ o = t
  \/ t = "BOOL"
  \/ IsUnsigned(t) /\ IsUnsigned(o) /\ PartBits(o) >= PartBits(t)
  \/ IsUnsigned(t) /\ IsSigned(o) /\ PartBits(o) > PartBits(t)
  \/ IsSigned(t) /\ IsSigned(o) /\ PartBits(o) >= PartBits(t)
  \/ (IsSigned(t) \/ IsUnsigned(t)) /\ (IsFloat(o) \/ IsComplex(o))
       /\ Significand(o) >= PartBits(t)
  \/ IsFloat(t) /\ (IsFloat(o) \/ IsComplex(o)) /\ PartBits(o) >= PartBits(t)
  \/ IsComplex(t) /\ IsComplex(o) /\ PartBits(o) >= PartBits(t)

Narrower(o, t) == ~CanHold(o, t)

\* C4: the output that binary_op, add or multiply creates when no output
\* handle is passed has an element type that is narrower than neither
\* operand's element type.
NewOutputNotNarrowed ==
  (ret.call \in BinaryCalls /\ ret.args.out = NoHandle /\ ret.ended = "returned") =>
     /\ ~Narrower(Deref(ret.out).type, operands[1].type)
     /\ ~Narrower(Deref(ret.out).type, operands[2].type)

\* C5: dot on operands that are not both of rank 2 with equal inner extents
\* ends in an exception that reaches the caller, the process stays alive and
\* no array is created; otherwise dot creates one output of shape
\* (rhs1.shape[0], rhs2.shape[1]) with rhs1's type and submits one dot.
DotContract ==
  ret.call = "dot" =>
     IF ArgsFailValidation
     THEN /\ ret.ended = "threw"
          /\ ret.thrown # NoException
          /\ alive
          /\ store = <<>>
     ELSE /\ ret.ended = "returned"
          /\ store = <<NDArray(<<operands[1].shape[1], operands[2].shape[2]>>,
                               operands[1].type)>>
          /\ chain = <<Submit("dot", "", ret.out, <<Operand(1), Operand(2)>>)>>
          /\ ret.out = Handle("store", 1)

\* The errors that stand for the specification's TypeError and
\* PreconditionError.
IsTypeError(e) ==
  \/ e.type = "TypeError"
  \/ e.type = "std::invalid_argument" /\ e.what = "Type must be a primitive type"

IsPreconditionError(e) ==
  e.type = "std::invalid_argument" /\ e.what = "Dim of input array must be > 0"

\* C9: zeros, eye and write_template run exactly the specialization of a
\* primitive tag, and fail with a TypeError, before an array is created or a
\* kernel body runs, for a composite tag or, in eye, a null type.
DispatchIsExact ==
  /\ (ret.call = "zeros" /\ ret.args.type \in PrimitiveTags) =>
        /\ ret.ended = "returned"
        /\ ret.ran = <<[fn |-> "generate_zero_fn", code |-> ret.args.type]>>
        /\ store = <<NDArray(ret.args.shape, ret.args.type)>>
  /\ (ret.call = "eye" /\ ret.args.type \in PrimitiveTags) =>
        /\ ret.ended = "returned"
        /\ Len(store) = 1
        /\ store[1].type = ret.args.type
  /\ (ret.call = "write_template" /\ ret.args.type \in PrimitiveTags) =>
        /\ ret.ended = "returned"
        /\ ret.ran = <<[fn |-> <<"WriteImplBody", ret.args.KIND>>,
                        code |-> ret.args.type]>>
  /\ (/\ ret.call \in {"zeros", "eye", "write_template"}
      /\ \/ ret.args.type \in Tags \ PrimitiveTags
         \/ ret.call = "eye" /\ ret.args.type = NullType) =>
        /\ ret.ended = "threw"
        /\ IsTypeError(ret.thrown)
        /\ store = <<>>
        /\ chain = <<>>
        /\ ret.ran = <<>>

\* C10: trilu, tril and triu fail with a PreconditionError on a rank-0
\* input, creating and submitting nothing; they create an (n, n) output
\* for a rank-1 input of length n and an output of the input's shape for a
\* higher rank; the output has the input's type, and the only operation
\* submitted writes the new output and reads the input.
TriluContract ==
  ret.call \in TriluCalls =>
     LET rhs == operands[1]
     IN  IF Len(rhs.shape) = 0
         THEN /\ ret.ended = "threw"
              /\ IsPreconditionError(ret.thrown)
              /\ store = <<>>
              /\ chain = <<>>
         ELSE /\ ret.ended = "returned"
              /\ ret.out = Handle("store", 1)
              /\ Len(store) = 1
              /\ store[1].shape = IF Len(rhs.shape) = 1
                                  THEN <<rhs.shape[1], rhs.shape[1]>>
                                  ELSE rhs.shape
              /\ store[1].type = rhs.type
              /\ Len(chain) = 1
              /\ chain[1].op = "trilu"
              /\ chain[1].out = ret.out
              /\ chain[1].ins = <<Operand(1)>>
              /\ chain[1].code[1] = ret.args.k
              /\ chain[1].code[2] = ret.args.lower

\* tril of a vector of length 2 has made a 2 x 2 output.
TriluContractWitness ==
  /\ ret.call = "tril"
  /\ operands[1].shape = <<2>>
  /\ ret.ended = "returned"
  /\ store[1].shape = <<2, 2>>

\* C8: sum over a vector of n ones of an integer type leaves exactly n in
\* a singleton output that has the input's element type.
SumOfOnesIsLength ==
  (ret.call = "sum" /\ ret.out \in DOMAIN buffers) =>
     /\ Deref(ret.out) = NDArray(<<1>>, operands[1].type)
     /\ buffers[ret.out] = <<operands[1].shape[1]>>

(* ------------------------------------------------------------------ *)
(* Properties of the kernel tasks                                       *)
(* ------------------------------------------------------------------ *)
\* C6: when the factorization routine reports a nonzero status the
\* Cholesky kernel signals an error and the in-place buffer is not left
\* partially factored: it holds what it held before the call.
FailedPotrfLeavesNoPartialFactor ==
  (potrf.pc = "done" /\ potrf.info # 0) =>
     /\ potrf.thrown.type = "legate::TaskException"
     /\ potrf.array = potrf.input

\* C6, the half the code keeps: a nonzero status is signalled as an error.
FailedPotrfSignalsError ==
  (potrf.pc = "done") => ((potrf.info # 0) <=> (potrf.thrown # NoException))

\* A CPU-variant task runs beside the OpenMP workers of the process: it is
\* inside a context that is parallel already.
InParallelContext(t) == tasks[t].kind = "PotrfTask::cpu_variant"

\* C7: in a build with LEGATE_USE_OPENMP, while a task inside an already
\* parallel context is in its library call, the library's process-wide
\* thread count is 1.
LibraryCallPinnedToOneThread ==
  LEGATE_USE_OPENMP =>
    \A t \in DOMAIN tasks :
       (InParallelContext(t) /\ tasks[t].pc = "library") => numThreads = 1

(* ------------------------------------------------------------------ *)
(* Properties of the local scan                                         *)
(* ------------------------------------------------------------------ *)
RECURSIVE SeqSum(_)
SeqSum(q) == IF q = <<>> THEN 0 ELSE Head(q) + SeqSum(Tail(q))

RECURSIVE Concatenated(_)
Concatenated(parts) ==
  IF parts = <<>> THEN <<>> ELSE Head(parts) \o Concatenated(Tail(parts))

\* The inclusive sum scan of q, element by element from its definition.
InclusiveSums(q) == [i \in 1..Len(q) |-> SeqSum(SubSeq(q, 1, i))]

\* The global fix-up: the exclusive prefix sum of the aggregates is added to
\* each partition's local scan.
FixedUp(out, sum_vals) ==
  Concatenated([p \in 1..Len(out) |->
                 [i \in 1..Len(out[p]) |->
                    out[p][i] + SeqSum(SubSeq(sum_vals, 1, p - 1))]])

\* C11: under inclusive sum, each partition whose task has run holds the
\* scan of that partition alone and, at its own index, an aggregate equal to
\* the partition's total; once every task has run, adding the exclusive
\* prefix sum of the aggregates to the local scans gives the inclusive scan
\* of the concatenated input.
LocalScanSupportsFixUp ==
  /\ \A p \in scan.ran :
        /\ scan.out[p] = InclusiveSums(scan.in[p])
        /\ scan.sum_vals[p] = SeqSum(scan.in[p])
  /\ (scan.op_code = "SUM" /\ scan.ran = 1..Len(scan.in)) =>
        FixedUp(scan.out, scan.sum_vals) = InclusiveSums(Concatenated(scan.in))

\* Two partitions have been scanned, the second one's elements need the
\* first one's non-zero aggregate added.
LocalScanSupportsFixUpWitness ==
  /\ scan.op_code = "SUM"
  /\ Len(scan.in) = 2
  /\ scan.ran = {1, 2}
  /\ Len(scan.in[1]) = 2
  /\ Len(scan.in[2]) = 2
  /\ scan.sum_vals[1] > 0
  /\ scan.out[2] # scan.in[2]
  /\ FixedUp(scan.out, scan.sum_vals) # Concatenated(scan.out)

====
